---- MODULE Spec2Model ----
(***************************************************************************)
(* Model of video_splitter: the timestamp parser (parse_time), the section *)
(* model (Section), the config builder (load_config), the driver           *)
(* (split_file / extract_section) and the two entry points (main and the   *)
(* interactive __main__).                                                   *)
(*                                                                         *)
(* Text is a sequence of one-character strings.  A Python float counting   *)
(* minutes is the integer n standing for n / Scale minutes; the seconds    *)
(* field of a Timestamp is the integer n standing for n / Scale seconds.   *)
(* Floating-point rounding is not modelled.                                *)
(***************************************************************************)
EXTENDS Integers, Sequences, FiniteSets, TLC

VARIABLES
    input,      \* the argument handed to parse_time (parser specification)
    result,     \* what parse_time returned or raised
    applied,    \* TRUE once parse_time has been applied to input
    entry,      \* "cli" (splitter.main) or "interactive" (__main__)
    doc,        \* the parsed YAML document: sequence of [name, value]
    pc,         \* position of the run
    idx,        \* loop index of the loop the run is in
    sections,   \* load_config's list of Section objects
    calls,      \* the ffmpeg invocations made so far, in order
    err         \* the exception that ended the run, "none" otherwise

vars == <<input, result, applied, entry, doc, pc, idx, sections, calls, err>>

parseVars == <<input, result, applied>>
progVars == <<entry, doc, pc, idx, sections, calls, err>>

----------------------------------------------------------------------------
(* Bounds *)

MaxLen == 5         \* longest enumerated text input
MaxFrac == 1        \* most digits after the decimal point of a number
MaxMinutes == 91    \* number inputs range over -MaxMinutes .. MaxMinutes minutes
MaxSections == 2    \* most sections of a document

RECURSIVE Pow10(_)
Pow10(n) == IF n = 0 THEN 1 ELSE 10 * Pow10(n - 1)

Scale == Pow10(MaxFrac)

----------------------------------------------------------------------------
(* Python values *)

\* Timestamp(h, m, s): the NamedTuple of splitter.py
Timestamp(h, m, s) == [tag |-> "Timestamp", h |-> h, m |-> m, s |-> s]

\* a plain tuple (h, m, s): it has no attributes h, m, s
PyTuple(h, m, s) == [tag |-> "tuple", h |-> h, m |-> m, s |-> s]

\* the int n (not subscriptable, no attributes h, m, s)
PyInt(n) == [tag |-> "int", h |-> n, m |-> 0, s |-> 0]

\* None
PyNone == [tag |-> "None", h |-> 0, m |-> 0, s |-> 0]

\* Python's == on tuples: a NamedTuple equals the plain tuple of its fields
PyEq(a, b) ==
    /\ a.tag \in {"Timestamp", "tuple"}
    /\ b.tag \in {"Timestamp", "tuple"}
    /\ a.h = b.h /\ a.m = b.m /\ a.s = b.s

\* inputs of parse_time
Text(chars) == [kind |-> "text", chars |-> chars, val |-> 0]
Num(n) == [kind |-> "num", chars |-> <<>>, val |-> n]
Null == [kind |-> "null", chars |-> <<>>, val |-> 0]

\* outcomes of parse_time
Ok(ts) == [ok |-> TRUE, err |-> "none", ts |-> ts]
Raise(e) == [ok |-> FALSE, err |-> e, ts |-> PyNone]

----------------------------------------------------------------------------
(* Characters *)

DigitChars == {"0", "1", "2", "3", "4", "5", "6", "7", "8", "9"}

DigitVal(c) ==
    CASE c = "0" -> 0 [] c = "1" -> 1 [] c = "2" -> 2 [] c = "3" -> 3
      [] c = "4" -> 4 [] c = "5" -> 5 [] c = "6" -> 6 [] c = "7" -> 7
      [] c = "8" -> 8 [] c = "9" -> 9

\* \d
IsDigit(c) == c \in DigitChars

\* \s
IsSpace(c) == c = " "

\* number of characters of the longest run of digits of t starting at i (\d+ is greedy)
RECURSIVE DigitRun(_, _)
DigitRun(t, i) ==
    IF i <= Len(t) /\ IsDigit(t[i]) THEN 1 + DigitRun(t, i + 1) ELSE 0

\* number of characters of the longest run of whitespace of t starting at i (\s*)
RECURSIVE SpaceRun(_, _)
SpaceRun(t, i) ==
    IF i <= Len(t) /\ IsSpace(t[i]) THEN 1 + SpaceRun(t, i + 1) ELSE 0

\* int() of the n digits of t starting at i
RECURSIVE ToInt(_, _, _)
ToInt(t, i, n) ==
    IF n = 0 THEN 0 ELSE 10 * ToInt(t, i, n - 1) + DigitVal(t[i + n - 1])

\* the character of t at i is c (FALSE past the end)
At(t, i, c) == i <= Len(t) /\ t[i] = c

\* the character of t at i is one of cs (FALSE past the end)
AtAny(t, i, cs) == i <= Len(t) /\ t[i] \in cs

----------------------------------------------------------------------------
(* parse_time *)

\* float(t) of a str t, for text without sign, exponent, underscore, "inf" or
\* "nan": surrounding whitespace is stripped, and what is left must be
\* digits, digits "." digits, digits "." or "." digits.  a is where the
\* numeral starts, d1 the number of digits before the point, dot the number of
\* characters of the point and the digits after it.  ok is FALSE where float
\* raises ValueError; val is the value in units of 1 / Scale.
FloatNumeral(t, a, d1, dot) ==
    [ok |-> /\ d1 + dot >= (IF dot > 0 THEN 2 ELSE 1)
            /\ a + d1 + dot + SpaceRun(t, a + d1 + dot) = Len(t) + 1,
     frac |-> IF dot > 0 THEN dot - 1 ELSE 0,
     val |-> ToInt(t, a, d1) * Scale
             + (IF dot > 1
                THEN (ToInt(t, a + d1 + 1, dot - 1) * Scale) \div Pow10(dot - 1)
                ELSE 0)]

FloatAfterDigits(t, a, d1) ==
    FloatNumeral(t, a, d1,
                 IF At(t, a + d1, ".") THEN 1 + DigitRun(t, a + d1 + 1) ELSE 0)

FloatAfterSpace(t, a) == FloatAfterDigits(t, a, DigitRun(t, a))

FloatOfText(t) == FloatAfterSpace(t, 1 + SpaceRun(t, 1))

\* the outcome of line 50 for a str, given what float() makes of it
CoercedText(f) ==
    [raised |-> "none", isfloat |-> f.ok, val |-> IF f.ok THEN f.val ELSE 0]

\* FloatCoerce with the isinstance test of line 53 made on the argument as
\* given: a str is never taken for a count of minutes
FloatCoerce_TextKept(x) ==
    CASE x.kind = "num" -> [raised |-> "none", isfloat |-> TRUE, val |-> x.val]
      [] x.kind = "null" -> [raised |-> "TypeError", isfloat |-> FALSE, val |-> 0]
      [] x.kind = "text" -> [raised |-> "none", isfloat |-> FALSE, val |-> 0]

\* lines 49-53: t = float(t), ValueError swallowed; then isinstance(t, float).
\* float(None) raises TypeError, which is not caught.
FloatCoerce(x) ==
    CASE x.kind = "num" -> [raised |-> "none", isfloat |-> TRUE, val |-> x.val]
      [] x.kind = "null" -> [raised |-> "TypeError", isfloat |-> FALSE, val |-> 0]
      [] x.kind = "text" -> CoercedText(FloatOfText(x.chars))

\* lines 54-57: a float t counts minutes
NumericTimestamp(v) ==
    Timestamp(v \div (60 * Scale), (v % (60 * Scale)) \div Scale, (v % Scale) * 60)

\* lines 59-60: re.match(r'(?P<hours>\d+)?:(?P<minutes>\d+):(?P<seconds>\d+)', t)
\* Each \d+ is followed by ":" or ends the pattern, so each one takes the whole
\* run of digits: dh, dm and ds characters.  hours is None when the text
\* starts with ":".
ColonGroups(t, dh, dm, ds) ==
    [matched |-> At(t, dh + 1, ":") /\ dm >= 1 /\ At(t, dh + dm + 2, ":") /\ ds >= 1,
     hasHours |-> dh >= 1,
     hours |-> ToInt(t, 1, dh),
     minutes |-> ToInt(t, dh + 2, dm),
     seconds |-> ToInt(t, dh + dm + 3, ds)]

ColonAfterMinutes(t, dh, dm) == ColonGroups(t, dh, dm, DigitRun(t, dh + dm + 3))

ColonAfterHours(t, dh) == ColonAfterMinutes(t, dh, DigitRun(t, dh + 2))

ColonMatch(t) == ColonAfterHours(t, DigitRun(t, 1))

\* ,?\s* matched at position j: the position after it
SkipSeparators(t, j) ==
    IF At(t, j, ",") THEN j + 1 + SpaceRun(t, j + 1) ELSE j + SpaceRun(t, j)

\* one optional group ((\d+)[xX],?\s*)? of letter_re tried at position i,
\* where a run of d digits starts
LetterGroupAt(t, i, letters, d) ==
    IF d >= 1 /\ AtAny(t, i + d, letters)
    THEN [hit |-> TRUE, value |-> ToInt(t, i, d), next |-> SkipSeparators(t, i + d + 1)]
    ELSE [hit |-> FALSE, value |-> 0, next |-> i]

LetterGroup(t, i, letters) == LetterGroupAt(t, i, letters, DigitRun(t, i))

\* lines 67-68: re.match(letter_re, t).  Every group is optional, so the
\* pattern matches (at worst the empty prefix) whatever the text is.
LetterGroups(gh, gm, gs) ==
    [matched |-> TRUE,
     hasHours |-> gh.hit, hasMinutes |-> gm.hit, hasSeconds |-> gs.hit,
     hours |-> gh.value, minutes |-> gm.value, seconds |-> gs.value]

LetterAfterMinutes(t, gh, gm) ==
    LetterGroups(gh, gm, LetterGroup(t, gm.next, {"s", "S"}))

LetterAfterHours(t, gh) ==
    LetterAfterMinutes(t, gh, LetterGroup(t, gh.next, {"m", "M"}))

LetterMatch(t) == LetterAfterHours(t, LetterGroup(t, 1, {"h", "H"}))

\* lines 62-65: the raw (h, m, s) of a colon match
ColonRaw(c) ==
    [ok |-> TRUE, shape |-> "colon",
     h |-> IF c.hasHours THEN c.hours ELSE 0,
     m |-> c.minutes,
     s |-> c.seconds * Scale]

\* lines 69-73: the raw (h, m, s) of a letter match; ok is FALSE where the
\* assert of line 69 fails
LetterRaw(l) ==
    [ok |-> l.matched, shape |-> "letter",
     h |-> IF l.hasHours THEN l.hours ELSE 0,
     m |-> IF l.hasMinutes THEN l.minutes ELSE 0,
     s |-> IF l.hasSeconds THEN l.seconds * Scale ELSE 0]

\* lines 61, 66: the colon shape if it matches, else the letter shape
RawOfMatch(t, c) == IF c.matched THEN ColonRaw(c) ELSE LetterRaw(LetterMatch(t))

\* lines 59-73: the raw (h, m, s) of a str that float() refused
RawComponents(t) == RawOfMatch(t, ColonMatch(t))

\* Normalize with line 77 left out: the carried seconds stay in s
Normalize_SecondsKept(h, m, s) ==
    LET m1 == IF s >= 60 * Scale THEN m + s \div (60 * Scale) ELSE m
        h1 == IF m1 >= 60 THEN h + m1 \div 60 ELSE h
        m2 == IF m1 >= 60 THEN m1 % 60 ELSE m1
    IN  Timestamp(h1, m2, s)

\* lines 75-81: carry seconds into minutes, then minutes into hours
Normalize(h, m, s) ==
    LET m1 == IF s >= 60 * Scale THEN m + s \div (60 * Scale) ELSE m
        s1 == IF s >= 60 * Scale THEN s % (60 * Scale) ELSE s
        h1 == IF m1 >= 60 THEN h + m1 \div 60 ELSE h
        m2 == IF m1 >= 60 THEN m1 % 60 ELSE m1
    IN  Timestamp(h1, m2, s1)

\* lines 69, 75-81: the assert, then the carry
ParseRaw(raw) ==
    IF ~raw.ok THEN Raise("AssertionError") ELSE Ok(Normalize(raw.h, raw.m, raw.s))

\* lines 53-81, given the outcome f of lines 49-52
ParseCoerced(x, f) ==
    IF f.raised /= "none" THEN Raise(f.raised)
    ELSE IF f.isfloat THEN Ok(NumericTimestamp(f.val))
    ELSE ParseRaw(RawComponents(x.chars))

\* parse_time(t), lines 36-81
ParseTime(x) == ParseCoerced(x, FloatCoerce(x))

----------------------------------------------------------------------------
(* Section *)

Section(name, start, end) == [name |-> name, start |-> start, end |-> end]

\* Section.start_seconds, lines 20-22, in units of 1 / Scale second
start_seconds(sec) ==
    sec.start.h * 3600 * Scale + sec.start.m * 60 * Scale + sec.start.s

\* Section.duration, lines 24-29: None without an end; subscripting an end
\* that is an int raises TypeError
duration(sec) ==
    IF sec.end.tag = "None" THEN [raised |-> "none", isNone |-> TRUE, val |-> 0]
    ELSE IF sec.end.tag = "int" THEN [raised |-> "TypeError", isNone |-> FALSE, val |-> 0]
    ELSE [raised |-> "none", isNone |-> FALSE,
          val |-> sec.end.h * 3600 * Scale + sec.end.m * 60 * Scale + sec.end.s
                  - start_seconds(sec)]

\* Section.to_string, lines 31-32: reads start.h and end.h, attributes that
\* only a Timestamp has
to_string(sec) ==
    IF sec.start.tag /= "Timestamp" \/ sec.end.tag /= "Timestamp"
    THEN "AttributeError"
    ELSE "none"

----------------------------------------------------------------------------
(* The parsed document *)

Absent == [kind |-> "absent", chars |-> <<>>, val |-> 0]

\* a sub-mapping with optional keys start and end
DictVal(s, e) == [kind |-> "dict", start |-> s, end |-> e, num |-> 0]

\* a bare number (float or int), in units of 1 / Scale
NumberVal(n) == [kind |-> "number", start |-> Absent, end |-> Absent, num |-> n]

\* anything else (a string, a list, null)
OtherVal == [kind |-> "other", start |-> Absent, end |-> Absent, num |-> 0]

\* the time values documents are built from: "1:0:0", "2h", a text of no
\* recognised shape, and null
TimeVals ==
    { Text(<<"1", ":", "0", ":", "0">>), Text(<<"2", "h">>), Text(<<"x">>), Null }

SectionValues ==
    { DictVal(s, e) : s \in TimeVals \cup {Absent}, e \in TimeVals \cup {Absent} }
        \cup { NumberVal(5 * Scale), OtherVal }

\* documents of at most MaxSections sections; keys are unique, so the i-th
\* section is named by its place
Docs == UNION { [1..k -> SectionValues] : k \in 0..MaxSections }

SectionName(i) == <<"A", "B", "C", "D", "E">>[i]

----------------------------------------------------------------------------
(* load_config *)

\* line 116: prev_start = (0,0,0), a plain tuple that no later line assigns
prev_start == PyTuple(0, 0, 0)

\* the end a Section is constructed with, line 118
EndDefault == -1

\* lines 120-123 for a sub-mapping, given the outcomes of the two parses
BuildDict(k, st, en) ==
    IF ~st.ok THEN [raised |-> st.err, section |-> Section(k, prev_start, PyInt(EndDefault))]
    ELSE IF ~en.ok THEN [raised |-> en.err, section |-> Section(k, st.ts, PyInt(EndDefault))]
    ELSE [raised |-> "none", section |-> Section(k, st.ts, en.ts)]

\* lines 120-123: a key that is present is parsed, one that is absent leaves
\* the field as the constructor of line 118 set it
ParsedOr(x, default) == IF x = Absent THEN Ok(default) ELSE ParseTime(x)

\* one pass of the loop body, lines 118-128, for key k and value v: the
\* exception it raises ("none" when it appends) and the Section it appends
BuildSection(k, v) ==
    CASE v.kind = "dict" ->
            BuildDict(k, ParsedOr(v.start, prev_start), ParsedOr(v.end, PyInt(EndDefault)))
      \* line 125: section_cfg['end'] = v, item assignment on a dataclass
      [] v.kind = "number" ->
            [raised |-> "TypeError", section |-> Section(k, prev_start, PyInt(EndDefault))]
      \* line 127
      [] OTHER ->
            [raised |-> "ValueError", section |-> Section(k, prev_start, PyInt(EndDefault))]

----------------------------------------------------------------------------
(* The run *)

\* def main(): takes no parameters (splitter.py line 135)
MainArity == 0

\* main(video_file, config_file) (__main__.py line 7)
ArgsPassed == 2

Outcomes == {"ok", "mkdir_error", "nonzero"}

Init ==
    /\ entry \in {"cli", "interactive"}
    /\ doc \in Docs
    /\ pc = "entry"
    /\ idx = 1
    /\ sections = <<>>
    /\ calls = <<>>
    /\ err = "none"
    /\ input = Null
    /\ result = Raise("pending")
    /\ applied = FALSE

\* python -m video_splitter.splitter: main() parses the command line and
\* calls load_config, which reads the document (lines 135-145, 110-116)
CliMain ==
    /\ pc = "entry" /\ entry = "cli" /\ err = "none"
    /\ pc' = "load"
    /\ idx' = 1
    /\ UNCHANGED <<parseVars, entry, doc, sections, calls, err>>

\* __main__.py lines 5-6: both paths are read at the prompts
Prompt ==
    /\ pc = "entry" /\ entry = "interactive" /\ err = "none"
    /\ pc' = "prompted"
    /\ UNCHANGED <<parseVars, entry, doc, idx, sections, calls, err>>

\* __main__.py line 7: main(video_file, config_file)
InteractiveCallMain ==
    /\ pc = "prompted" /\ err = "none"
    /\ IF ArgsPassed = MainArity
       THEN pc' = "load" /\ err' = err
       ELSE pc' = pc /\ err' = "TypeError"
    /\ UNCHANGED <<parseVars, entry, doc, idx, sections, calls>>

\* line 128 (or the exception leaving the loop), given the outcome r of the body
Appended(r) ==
    IF r.raised = "none"
    THEN /\ sections' = Append(sections, r.section)
         /\ idx' = idx + 1
         /\ err' = err
    ELSE /\ err' = r.raised
         /\ UNCHANGED <<sections, idx>>

\* one pass of the loop of load_config, lines 117-128
LoadItem ==
    /\ pc = "load" /\ err = "none" /\ idx <= Len(doc)
    /\ Appended(BuildSection(SectionName(idx), doc[idx]))
    /\ UNCHANGED <<parseVars, entry, doc, pc, calls>>

\* load_config returns (line 129); main prints the header (line 146)
LoadDone ==
    /\ pc = "load" /\ err = "none" /\ idx > Len(doc)
    /\ pc' = "print"
    /\ idx' = 1
    /\ UNCHANGED <<parseVars, entry, doc, sections, calls, err>>

\* one pass of the loop of main, lines 147-148
PrintSection ==
    /\ pc = "print" /\ err = "none" /\ idx <= Len(sections)
    /\ LET e == to_string(sections[idx])
       IN  IF e = "none"
           THEN idx' = idx + 1 /\ err' = err
           ELSE idx' = idx /\ err' = e
    /\ UNCHANGED <<parseVars, entry, doc, pc, sections, calls>>

\* main calls split_file (line 149)
PrintDone ==
    /\ pc = "print" /\ err = "none" /\ idx > Len(sections)
    /\ pc' = "split"
    /\ idx' = 1
    /\ UNCHANGED <<parseVars, entry, doc, sections, calls, err>>

\* ExtractSection with subprocess.call in place of check_call at line 107:
\* a non-zero exit status is ignored and the loop goes on
ExtractSection_ExitIgnored ==
    /\ pc = "split" /\ err = "none" /\ idx <= Len(sections)
    /\ \E outcome \in Outcomes :
        LET section == sections[idx]
            d == duration(section)
            hasFlag == section.end.tag /= "None"
        IN  IF outcome = "mkdir_error"
            THEN err' = "OSError" /\ UNCHANGED <<idx, calls>>
            ELSE IF hasFlag /\ d.raised /= "none"
            THEN err' = d.raised /\ UNCHANGED <<idx, calls>>
            ELSE /\ calls' = Append(calls,
                        [name |-> section.name,
                         ss |-> start_seconds(section),
                         hasT |-> hasFlag,
                         t |-> IF hasFlag THEN d.val ELSE 0,
                         rc |-> IF outcome = "nonzero" THEN 1 ELSE 0])
                 /\ err' = err /\ idx' = idx + 1
    /\ UNCHANGED <<parseVars, entry, doc, pc, sections>>

\* one pass of the loop of split_file (lines 132-133): extract_section,
\* lines 84-107.  outcome is what the file system and ffmpeg do.
ExtractSection ==
    /\ pc = "split" /\ err = "none" /\ idx <= Len(sections)
    /\ \E outcome \in Outcomes :
        LET section == sections[idx]
            d == duration(section)
            hasFlag == section.end.tag /= "None"
        IN  IF outcome = "mkdir_error"
            THEN err' = "OSError" /\ UNCHANGED <<idx, calls>>
            ELSE IF hasFlag /\ d.raised /= "none"
            THEN err' = d.raised /\ UNCHANGED <<idx, calls>>
            ELSE /\ calls' = Append(calls,
                        [name |-> section.name,
                         ss |-> start_seconds(section),
                         hasT |-> hasFlag,
                         t |-> IF hasFlag THEN d.val ELSE 0,
                         rc |-> IF outcome = "nonzero" THEN 1 ELSE 0])
                 /\ IF outcome = "nonzero"
                    THEN err' = "CalledProcessError" /\ idx' = idx
                    ELSE err' = err /\ idx' = idx + 1
    /\ UNCHANGED <<parseVars, entry, doc, pc, sections>>

\* split_file and main return
SplitDone ==
    /\ pc = "split" /\ err = "none" /\ idx > Len(sections)
    /\ pc' = "done"
    /\ UNCHANGED <<parseVars, entry, doc, idx, sections, calls, err>>

Next ==
    \/ CliMain
    \/ Prompt
    \/ InteractiveCallMain
    \/ LoadItem
    \/ LoadDone
    \/ PrintSection
    \/ PrintDone
    \/ ExtractSection
    \/ SplitDone

Spec == Init /\ [][Next]_vars

----------------------------------------------------------------------------
(* parse_time applied to one input *)

\* the characters enumerated texts are made of
Alphabet == {"0", "1", "6", ":", ".", "h", "m", "s", " "}

\* the texts the repository's documentation names, and a few with separators
Examples ==
    { <<"9", "0">>,
      <<"5", ".", "5">>,
      <<"1", ":", "0", "2", ":", "0", "3">>,
      <<"0", "2", ":", "0", "3">>,
      <<"1", "h", "3", "0", "m">>,
      <<"9", "0", "s">>,
      <<"1", "h", ",", " ", "9", "0", "m", " ", "7", "5", "s">>,
      <<"1", ":", "6", "0", ":", "6", "0">>,
      <<"n", "o", "t", " ", "a", " ", "t", "i", "m", "e">> }

Strings == UNION { [1..k -> Alphabet] : k \in 0..MaxLen }

\* a text whose number float() can hold in units of 1 / Scale
Representable(t) == ~FloatOfText(t).ok \/ FloatOfText(t).frac <= MaxFrac

TextInputs == { Text(t) : t \in { u \in Strings \cup Examples : Representable(u) } }

NumberInputs == { Num(n) : n \in (0 - MaxMinutes * Scale)..(MaxMinutes * Scale) }

ParseInputs == TextInputs \cup NumberInputs \cup {Null}

InitParse ==
    /\ input \in ParseInputs
    /\ result = Raise("pending")
    /\ applied = FALSE
    /\ entry = "cli"
    /\ doc = <<>>
    /\ pc = "entry"
    /\ idx = 1
    /\ sections = <<>>
    /\ calls = <<>>
    /\ err = "none"

\* parse_time(input)
ApplyParse ==
    /\ ~applied
    /\ result' = ParseTime(input)
    /\ applied' = TRUE
    /\ UNCHANGED <<input, progVars>>

NextParse == ApplyParse

SpecParse == InitParse /\ [][NextParse]_vars

----------------------------------------------------------------------------
(* Properties of parse_time, checked under SpecParse *)

\* whole seconds of (h, m, s), s in units of 1 / Scale second
WholeSeconds(h, m, s) == h * 3600 + m * 60 + s \div Scale

\* the text is of none of the three shapes: float() refuses it, the colon
\* pattern does not match it and it has none of the letter components
Unrecognised(t) ==
    /\ ~FloatOfText(t).ok
    /\ ~ColonMatch(t).matched
    /\ ~LetterMatch(t).hasHours
    /\ ~LetterMatch(t).hasMinutes
    /\ ~LetterMatch(t).hasSeconds

\* the text is digits ":" digits ":" digits and nothing else
ThreeFields(t) ==
    LET dh == DigitRun(t, 1)
        dm == DigitRun(t, dh + 2)
        ds == DigitRun(t, dh + dm + 3)
    IN  /\ dh >= 1 /\ At(t, dh + 1, ":")
        /\ dm >= 1 /\ At(t, dh + dm + 2, ":")
        /\ ds >= 1 /\ dh + dm + ds + 2 = Len(t)

\* the text is digits ":" digits and nothing else
TwoFields(t) ==
    LET dm == DigitRun(t, 1)
        ds == DigitRun(t, dm + 2)
    IN  /\ dm >= 1 /\ At(t, dm + 1, ":")
        /\ ds >= 1 /\ dm + ds + 1 = Len(t)

\* ts is the normalized Timestamp of h hours, m minutes and s whole seconds
IsNormalOf(ts, h, m, s) ==
    /\ ts.m \in 0..59
    /\ ts.s >= 0 /\ ts.s < 60 * Scale /\ ts.s % Scale = 0
    /\ WholeSeconds(ts.h, ts.m, ts.s) = h * 3600 + m * 60 + s

\* C2: parse_time fails for every text that is not numeric, does not match
\* the colon form and has none of the three letter components (the empty
\* string and "not a time" among them); it returns no Timestamp for it.
C2_InvalidTextFails ==
    (applied /\ input.kind = "text" /\ Unrecognised(input.chars)) => ~result.ok

\* C4: parse_time of "h:m:s" is the normalized Timestamp of (h, m, s), and
\* parse_time of the two-field "m:s" is the normalized Timestamp of (0, m, s).
C4_ColonForm ==
    (applied /\ input.kind = "text") =>
        LET t == input.chars
            dh == DigitRun(t, 1)
            dm == DigitRun(t, dh + 2)
        IN  /\ ThreeFields(t) =>
                /\ result.ok
                /\ IsNormalOf(result.ts, ToInt(t, 1, dh), ToInt(t, dh + 2, dm),
                              ToInt(t, dh + dm + 3, DigitRun(t, dh + dm + 3)))
            /\ TwoFields(t) =>
                /\ result.ok
                /\ IsNormalOf(result.ts, 0, ToInt(t, 1, dh),
                              ToInt(t, dh + 2, DigitRun(t, dh + 2)))

\* seconds (whole, and the rest in units of 1 / Scale) of what parse_time
\* read from x before any carry: the minutes of a number, the groups of a text
RawSeconds(x) ==
    IF FloatCoerce(x).isfloat
    THEN LET v == FloatCoerce(x).val
         IN  <<60 * (v \div Scale) + (60 * (v % Scale)) \div Scale,
               (60 * (v % Scale)) % Scale>>
    ELSE LET raw == RawComponents(x.chars)
         IN  <<WholeSeconds(raw.h, raw.m, raw.s), raw.s % Scale>>

\* C6: every Timestamp parse_time returns has 0 <= minutes < 60 and
\* 0 <= seconds < 60, and its total seconds are those of the raw components.
C6_Normalized ==
    (applied /\ result.ok) =>
        /\ result.ts.m >= 0 /\ result.ts.m < 60
        /\ result.ts.s >= 0 /\ result.ts.s < 60 * Scale
        /\ <<WholeSeconds(result.ts.h, result.ts.m, result.ts.s), result.ts.s % Scale>>
               = RawSeconds(input)

\* "90s" carries into Timestamp(0, 1, 30)
C6_Witness ==
    /\ applied
    /\ input = Text(<<"9", "0", "s">>)
    /\ result = Ok(Timestamp(0, 1, 30 * Scale))

\* C8: a number, or a text float() accepts, of value v is read as v minutes:
\* hours = floor(v / 60), minutes = floor(v mod 60), seconds = frac(v) * 60;
\* the colon and letter shapes are not tried, and the text gives what the
\* number gives.
C8_NumericPrecedence ==
    /\ (applied /\ input.kind = "num") =>
            result = Ok(Timestamp(input.val \div (60 * Scale),
                                  (input.val % (60 * Scale)) \div Scale,
                                  (input.val % Scale) * 60))
    /\ (applied /\ input.kind = "text" /\ FloatOfText(input.chars).ok) =>
            LET v == FloatOfText(input.chars).val
            IN  /\ result = Ok(Timestamp(v \div (60 * Scale),
                                         (v % (60 * Scale)) \div Scale,
                                         (v % Scale) * 60))
                /\ result = ParseTime(Num(v))

\* "90" is 90 minutes: Timestamp(1, 30, 0)
C8_Witness ==
    /\ applied
    /\ input = Text(<<"9", "0">>)
    /\ result = Ok(Timestamp(1, 30, 0))

----------------------------------------------------------------------------
(* Properties of the run, checked under Spec *)

\* the document gives section i a start
HasStart(i) == doc[i].kind = "dict" /\ doc[i].start /= Absent

\* the document gives section i an end
HasEnd(i) == (doc[i].kind = "dict" /\ doc[i].end /= Absent) \/ doc[i].kind = "number"

\* the default start of section i: the end of the nearest section before it
\* that has one, Timestamp(0, 0, 0) when there is none
RECURSIVE CascadeBefore(_)
CascadeBefore(i) ==
    IF i = 1 THEN Timestamp(0, 0, 0)
    ELSE IF HasEnd(i - 1) THEN sections[i - 1].end
    ELSE CascadeBefore(i - 1)

\* C1: a section without a start key starts at the end of the nearest
\* preceding section that has an end, at Timestamp(0, 0, 0) when none has.
C1_CascadingStart ==
    \A i \in 1..Len(sections) :
        ~HasStart(i) => PyEq(sections[i].start, CascadeBefore(i))

\* C3: for a section whose value is a bare number n the builder succeeds, and
\* the Section has that name, end parse_time(n) and the cascade value as start.
C3_BareNumber ==
    \A i \in 1..Len(doc) :
        doc[i].kind = "number" =>
            /\ ~(pc = "load" /\ idx = i /\ err /= "none")
            /\ i <= Len(sections) =>
                /\ sections[i].name = SectionName(i)
                /\ PyEq(sections[i].end, ParseTime(Num(doc[i].num)).ts)
                /\ PyEq(sections[i].start, CascadeBefore(i))

\* C5: a section whose sub-mapping has no end key is built with end absent,
\* its duration is absent, the run does not fail on it, and ffmpeg is invoked
\* for it with the start offset and no duration.
C5_EndlessSection ==
    \A i \in 1..Len(sections) :
        (doc[i].kind = "dict" /\ doc[i].end = Absent) =>
            /\ sections[i].end = PyNone
            /\ duration(sections[i]).isNone
            /\ ~(pc \in {"print", "split"} /\ idx = i
                    /\ err \in {"AttributeError", "TypeError"})
            /\ i <= Len(calls) =>
                    ~calls[i].hasT /\ calls[i].ss = start_seconds(sections[i])

\* C7: the ffmpeg invocations are a prefix of the sections, in declaration
\* order and one per section; an invocation that failed is the last one; the
\* prefix is the whole sequence when the run ends without a failure; and an
\* invocation once made is never withdrawn, each step adding at most one.
C7_DriverOrder ==
    /\ [](/\ Len(calls) <= Len(sections)
          /\ \A j \in 1..Len(calls) :
                /\ calls[j].name = sections[j].name
                /\ calls[j].rc /= 0 =>
                        j = Len(calls) /\ pc = "split" /\ err = "CalledProcessError"
          /\ (pc = "split" /\ err = "none") => Len(calls) = idx - 1
          /\ pc = "done" => Len(calls) = Len(sections))
    /\ [][\/ calls' = calls
          \/ /\ Len(calls') = Len(calls) + 1
             /\ SubSeq(calls', 1, Len(calls)) = calls
             /\ pc = "split" /\ err = "none"]_vars

\* the first of two extractions fails: the second section is never extracted
C7_Witness ==
    /\ err = "CalledProcessError"
    /\ Len(sections) = 2
    /\ Len(calls) = 1
    /\ calls[1].rc /= 0

\* a time value of none of parse_time's shapes
InvalidTime(x) ==
    \/ x.kind = "null"
    \/ x.kind = "text" /\ Unrecognised(x.chars)

\* some value of the document is no section, or holds an invalid time
InvalidDoc ==
    \E i \in 1..Len(doc) :
        \/ doc[i].kind = "other"
        \/ doc[i].kind = "dict" /\ (InvalidTime(doc[i].start) \/ InvalidTime(doc[i].end))

\* C9: every section is built before the first ffmpeg invocation, and a
\* document with a value that is neither sub-mapping nor number, or with an
\* invalid time, ends the run in an error with no invocation at all.
C9_ConfigErrorsFirst ==
    /\ Len(calls) > 0 => Len(sections) = Len(doc)
    /\ InvalidDoc => (Len(calls) = 0 /\ pc /= "done")

\* C10: once both paths are entered at the prompts of the interactive entry,
\* the run goes on to build the configuration.
C10_InteractiveBuilds ==
    [][(entry = "interactive" /\ pc = "prompted" /\ err = "none")
            => (pc' = "load" /\ err' = "none")]_vars

====
